---------------------------- MODULE Spec2Model ----------------------------
(***************************************************************************)
(* A state-machine model of practice5/main.cpp: setup of the window, the   *)
(* GL context and the shader program, construction of the two textures,    *)
(* and the frame loop (event drain, animation clock, uniforms, texture     *)
(* binding and update, draw, swap), followed by shutdown.                  *)
(*                                                                         *)
(* Time is counted in milliseconds (the code accumulates float seconds;    *)
(* 0.05f is Tick = 50 and a 0.016 s step is 16).  Float rounding is not    *)
(* modelled.  The projection's `right` is kept as an exact fraction.       *)
(* The embedded frames of test_image.h are opaque tokens named by index.   *)
(* The checkerboard is scaled down: ImgDim stands for the code's 1024 and  *)
(* the explicit levels keep the code's ratios (1/2, 1/4, 1/8).             *)
(***************************************************************************)
EXTENDS Integers, Sequences, FiniteSets

VARIABLES
    pc,                 \* position of main()
    exception,          \* what() of the exception in flight or caught, "none"
    stderr,             \* lines written to std::cerr
    exit_code,          \* -1 while the process runs, then main's return value
    endian,             \* byte order of the host (implementation-defined)
    window,             \* "none" | "open" | "destroyed"
    gl_context,         \* "none" | "current" | "deleted"
    width, height,      \* int width, height
    tex_location,       \* GLuint tex_location     (a uniform's name)
    tex_img_location,   \* GLuint tex_img_location (a uniform's name)
    uniform,            \* values of the program's uniforms
    viewport,           \* glViewport's rectangle size
    active_texture,     \* glActiveTexture's unit
    bound_texture,      \* unit -> texture bound to GL_TEXTURE_2D
    textures,           \* texture -> level -> image
    upload,             \* the glTexSubImage2D call of the current iteration
    prev_time, time,    \* float prev_time, time (ms)
    curr_frame, curr_frame_changed,
    button_down,        \* std::map<SDL_Keycode, bool>
    running,
    queue               \* SDL's pending events

vars == <<pc, exception, stderr, exit_code, endian, window, gl_context,
          width, height, tex_location, tex_img_location, uniform, viewport,
          active_texture, bound_texture, textures, upload, prev_time, time,
          curr_frame, curr_frame_changed, button_down, running, queue>>

animation == <<prev_time, time, curr_frame, curr_frame_changed>>
glstate == <<uniform, viewport, active_texture, bound_texture, textures, upload>>
process == <<exception, stderr, exit_code>>
locations == <<tex_location, tex_img_location>>

----------------------------------------------------------------------------
(* Bounds of the model *)

MaxTime == 66
AnimMaxTime == 800
SteadyMaxTime == 800
MaxQueue == 2
ImgDim == 8

(* Time steps (ms) a loop iteration may measure: any, with a stall of more
   than two tick periods among them; at most the tick period; a steady
   16 ms; and those of the runs with input *)
Dts == {0, 16, 50, 120}
PolledDts == {0, 16, 25, 50}
SteadyDts == {16}
InputDts == {16, 50}

(* Sizes SDL_GetWindowSize may report and resize events may carry *)
InitialSizes == {<<800, 600>>, <<1920, 1080>>}
ResizeSizes == {<<1024, 768>>, <<600, 800>>}
Keycodes == {"a"}

----------------------------------------------------------------------------
(* Program constants *)

Tick == 50
FrameCount == 15
(* The std::uint32_t fill words, as their four base-256 digits, most
   significant first: 0xff0000ffu, 0xffff0000u, 0xff00ff00u *)
RedWord == <<255, 0, 0, 255>>
GreenWord == <<255, 255, 0, 0>>
BlueWord == <<255, 0, 255, 0>>
AnimDim == 498
NearNum == 1
NearDen == 10
EXIT_SUCCESS == 0
EXIT_FAILURE == 1
TextureId == 1
TexImgId == 2

Red == <<255, 0, 0, 255>>
Green == <<0, 255, 0, 255>>
Blue == <<0, 0, 255, 255>>

----------------------------------------------------------------------------
(* Images and the texture operations of OpenGL *)

Max(a, b) == IF a >= b THEN a ELSE b
Min(a, b) == IF a <= b THEN a ELSE b

NoImage == [kind |-> "none", w |-> 0, h |-> 0, px |-> <<>>]
NoTexture == [l \in 0..3 |-> NoImage]

(* The bytes of a std::uint32_t in memory order, which GL_RGBA with
   GL_UNSIGNED_BYTE reads as R, G, B, A *)
BytesOf(word, order) ==
    IF order = "little"
    THEN <<word[4], word[3], word[2], word[1]>>
    ELSE word

(* std::vector<std::uint32_t>(n * n, word) uploaded as an n x n RGBA8 image *)
SolidImage(n, word, order) ==
    [kind |-> "texels", w |-> n, h |-> n,
     px |-> [i \in 1..(n * n) |-> BytesOf(word, order)]]

(* The checkerboard buffer: x is the outer loop, y the inner one, four
   bytes pushed per pixel *)
CheckerTexel(x, y) ==
    LET res == ((x + y) % 2) * 255 IN <<res, res, res, 255>>

CheckerImage(n) ==
    [kind |-> "texels", w |-> n, h |-> n,
     px |-> [i \in 1..(n * n) |-> CheckerTexel((i - 1) \div n, (i - 1) % n)]]

(* test_image_data[k]: frame k of the embedded sequence; an index outside
   the table reads past the array *)
test_image_data(k) ==
    IF k \in 0..(FrameCount - 1) THEN [frame |-> k, level |-> 0]
    ELSE [frame |-> "out_of_bounds", level |-> 0]

FrameImage(k) ==
    [kind |-> "asset", w |-> AnimDim, h |-> AnimDim, px |-> test_image_data(k)]

(* One level of glGenerateMipmap: a 2x2 box filter of the level above *)
TexelAt(img, r, c) ==
    img.px[Min(r, img.h - 1) * img.w + Min(c, img.w - 1) + 1]

Downsample(img) ==
    LET w2 == Max(1, img.w \div 2)
        h2 == Max(1, img.h \div 2)
    IN  IF img.kind = "asset"
        THEN [kind |-> "asset", w |-> w2, h |-> h2,
              px |-> [frame |-> img.px.frame, level |-> img.px.level + 1]]
        ELSE [kind |-> "texels", w |-> w2, h |-> h2,
              px |-> [i \in 1..(w2 * h2) |->
                  LET r == (i - 1) \div w2
                      c == (i - 1) % w2
                  IN  [ch \in 1..4 |->
                        (TexelAt(img, 2 * r, 2 * c)[ch]
                         + TexelAt(img, 2 * r, 2 * c + 1)[ch]
                         + TexelAt(img, 2 * r + 1, 2 * c)[ch]
                         + TexelAt(img, 2 * r + 1, 2 * c + 1)[ch]) \div 4]]]

(* glGenerateMipmap(GL_TEXTURE_2D): levels 1..3 rebuilt from level 0 *)
GenerateMipmap(levels) ==
    LET l1 == Downsample(levels[0])
        l2 == Downsample(l1)
        l3 == Downsample(l2)
    IN  [l \in 0..3 |-> CASE l = 0 -> levels[0]
                          [] l = 1 -> l1
                          [] l = 2 -> l2
                          [] OTHER -> l3]

(* glTexImage2D / glTexSubImage2D(GL_TEXTURE_2D, level, ...): replaces one
   level of the texture bound to the active unit *)
TexImage2D(texs, bound, unit, level, img) ==
    [texs EXCEPT ![bound[unit]] = [@ EXCEPT ![level] = img]]

GenerateMipmapBound(texs, bound, unit) ==
    [texs EXCEPT ![bound[unit]] = GenerateMipmap(@)]

(* glTexSubImage2D(GL_TEXTURE_2D, level, 0, 0, w, h, ...) over the whole
   level: the pixels change, the level's storage stays *)
TexSubImage2D(texs, bound, unit, level, img) ==
    [texs EXCEPT ![bound[unit]] = [@ EXCEPT ![level].px = img.px]]

(* glBindTexture(GL_TEXTURE_2D, id) on the active unit *)
BindTexture(bound, unit, id) == [bound EXCEPT ![unit] = id]

(* glUniform1i / glUniformMatrix4fv on a location *)
SetUniform(u, loc, v) == [u EXCEPT ![loc] = v]

(* glGetUniformLocation(program, name): locations are named by the uniform *)
GetUniformLocation(name) == name

NoUpload == [done |-> FALSE, unit |-> 0, texture |-> 0, index |-> 0]

(* Exact fractions for the float expressions of the projection *)
Frac(n, d) == [num |-> n, den |-> d]
FracEq(a, b) == a.num * b.den = b.num * a.den

(* float right = (top * width) / height, with top = near = 0.1f *)
Right(w, h) == Frac(NearNum * w, NearDen * h)

(* projection[0] = near / right *)
Projection(w, h) ==
    [right |-> Right(w, h),
     m00 |-> Frac(NearNum * Right(w, h).den, NearDen * Right(w, h).num)]

----------------------------------------------------------------------------
(* Initial state: entry of main() *)

Init ==
    /\ pc = "sdl_init"
    /\ exception = "none"
    /\ stderr = <<>>
    /\ exit_code = -1
    /\ endian \in {"little", "big"}
    /\ window = "none"
    /\ gl_context = "none"
    /\ width = 0
    /\ height = 0
    /\ tex_location = "none"
    /\ tex_img_location = "none"
    /\ uniform = [n \in {"view", "projection", "tex", "img"} |-> 0]
    /\ viewport = <<0, 0>>
    /\ active_texture = 0
    /\ bound_texture = [u \in 0..1 |-> 0]
    /\ textures = [t \in {TextureId, TexImgId} |-> NoTexture]
    /\ upload = NoUpload
    /\ prev_time = 0
    /\ time = 0
    /\ curr_frame = 0
    /\ curr_frame_changed = FALSE
    /\ button_down = <<>>
    /\ running = FALSE
    /\ queue = <<>>

----------------------------------------------------------------------------
(* Setup.  Every step that can fail throws std::runtime_error, which
   unwinds to the function-try-block's handler. *)

Throw(message) ==
    /\ pc' = "catch"
    /\ exception' = message
    /\ UNCHANGED <<stderr, exit_code, endian, window, gl_context, width,
                   height, locations, glstate, animation, button_down,
                   running, queue>>

(* A setup step that succeeds and changes nothing but the position *)
Proceed(next) ==
    /\ pc' = next
    /\ UNCHANGED <<process, endian, window, gl_context, width, height,
                   locations, glstate, animation, button_down, running,
                   queue>>

SdlInit ==
    /\ pc = "sdl_init"
    /\ \/ Proceed("create_window")
       \/ Throw("SDL_Init: ")

CreateWindow ==
    /\ pc = "create_window"
    /\ \/ /\ window' = "open"
          /\ \E size \in InitialSizes :
                /\ width' = size[1]
                /\ height' = size[2]
          /\ pc' = "create_context"
          /\ UNCHANGED <<process, endian, gl_context, locations, glstate,
                         animation, button_down, running, queue>>
       \/ Throw("SDL_CreateWindow: ")

CreateContext ==
    /\ pc = "create_context"
    /\ \/ /\ gl_context' = "current"
          /\ pc' = "glew_init"
          /\ UNCHANGED <<process, endian, window, width, height, locations,
                         glstate, animation, button_down, running, queue>>
       \/ Throw("SDL_GL_CreateContext: ")

GlewInit ==
    /\ pc = "glew_init"
    /\ \/ Proceed("check_version")
       \/ Throw("glewInit: ")

CheckVersion ==
    /\ pc = "check_version"
    /\ \/ Proceed("vertex_shader")
       \/ Throw("OpenGL 3.3 is not supported")

CompileVertexShader ==
    /\ pc = "vertex_shader"
    /\ \/ Proceed("fragment_shader")
       \/ Throw("Shader compilation failed: ")

CompileFragmentShader ==
    /\ pc = "fragment_shader"
    /\ \/ Proceed("link_program")
       \/ Throw("Shader compilation failed: ")

LinkProgram ==
    /\ pc = "link_program"
    /\ \/ Proceed("locations")
       \/ Throw("Program linkage failed: ")

(* the second location asks for the second sampler *)
QueryLocationsImg ==
    /\ pc = "locations"
    /\ tex_location' = GetUniformLocation("tex")
    /\ tex_img_location' = GetUniformLocation("img")
    /\ pc' = "build_checkerboard"
    /\ UNCHANGED <<process, endian, window, gl_context, width, height,
                   glstate, animation, button_down, running, queue>>

(* The uniform locations; the vertex array and buffers that follow hold no
   state the loop changes *)
QueryLocations ==
    /\ pc = "locations"
    /\ tex_location' = GetUniformLocation("tex")
    /\ tex_img_location' = GetUniformLocation("tex")
    /\ pc' = "build_checkerboard"
    /\ UNCHANGED <<process, endian, window, gl_context, width, height,
                   glstate, animation, button_down, running, queue>>

(* glGenTextures, glBindTexture, level 0, glGenerateMipmap, then the three
   explicit levels *)
BuildCheckerboard ==
    /\ pc = "build_checkerboard"
    /\ LET b1 == BindTexture(bound_texture, active_texture, TextureId)
           t0 == TexImage2D(textures, b1, active_texture, 0, CheckerImage(ImgDim))
           t1 == GenerateMipmapBound(t0, b1, active_texture)
           t2 == TexImage2D(t1, b1, active_texture, 1,
                            SolidImage(ImgDim \div 2, RedWord, endian))
           t3 == TexImage2D(t2, b1, active_texture, 2,
                            SolidImage(ImgDim \div 4, GreenWord, endian))
           t4 == TexImage2D(t3, b1, active_texture, 3,
                            SolidImage(ImgDim \div 8, BlueWord, endian))
       IN  /\ bound_texture' = b1
           /\ textures' = t4
    /\ pc' = "build_animated"
    /\ UNCHANGED <<process, endian, window, gl_context, width, height,
                   locations, uniform, viewport, active_texture, upload,
                   animation, button_down, running, queue>>

(* glGenTextures, glBindTexture, frame 0 as level 0, glGenerateMipmap; then
   the locals of the loop *)
BuildAnimated ==
    /\ pc = "build_animated"
    /\ LET b1 == BindTexture(bound_texture, active_texture, TexImgId)
           t0 == TexImage2D(textures, b1, active_texture, 0, FrameImage(0))
           t1 == GenerateMipmapBound(t0, b1, active_texture)
       IN  /\ bound_texture' = b1
           /\ textures' = t1
    /\ prev_time' = 0
    /\ time' = 0
    /\ curr_frame' = 0
    /\ curr_frame_changed' = FALSE
    /\ button_down' = <<>>
    /\ running' = TRUE
    /\ pc' = "poll"
    /\ UNCHANGED <<process, endian, window, gl_context, width, height,
                   locations, uniform, viewport, active_texture, upload,
                   queue>>

(* the handler reports the failure and returns success *)
CatchReturnsSuccess ==
    /\ pc = "catch"
    /\ stderr' = Append(stderr, exception)
    /\ exit_code' = EXIT_SUCCESS
    /\ pc' = "done"
    /\ UNCHANGED <<exception, endian, window, gl_context, width, height,
                   locations, glstate, animation, button_down, running,
                   queue>>

(* catch (std::exception const & e) *)
Catch ==
    /\ pc = "catch"
    /\ stderr' = Append(stderr, exception)
    /\ exit_code' = EXIT_FAILURE
    /\ pc' = "done"
    /\ UNCHANGED <<exception, endian, window, gl_context, width, height,
                   locations, glstate, animation, button_down, running,
                   queue>>

----------------------------------------------------------------------------
(* The environment: SDL queues an event for the window *)

Event(type, event, data1, data2, sym) ==
    [type |-> type, event |-> event, data1 |-> data1, data2 |-> data2,
     sym |-> sym]

Events ==
    {Event("SDL_QUIT", "", 0, 0, "")}
    \cup {Event("SDL_WINDOWEVENT", "SDL_WINDOWEVENT_RESIZED", s[1], s[2], "") :
            s \in ResizeSizes}
    \cup {Event("SDL_WINDOWEVENT", "SDL_WINDOWEVENT_EXPOSED", 0, 0, "")}
    \cup {Event(t, "", 0, 0, k) : t \in {"SDL_KEYDOWN", "SDL_KEYUP"}, k \in Keycodes}

Post ==
    /\ window = "open"
    /\ pc \notin {"catch", "delete_context", "destroy_window", "done"}
    /\ Len(queue) < MaxQueue
    /\ \E e \in Events : queue' = Append(queue, e)
    /\ UNCHANGED <<pc, process, endian, window, gl_context, width, height,
                   locations, glstate, animation, button_down, running>>

----------------------------------------------------------------------------
(* The frame loop: the event drain.  Each action is one SDL_PollEvent that
   returns an event, with the switch case that handles it. *)

Polled(type) ==
    /\ pc = "poll"
    /\ queue # <<>>
    /\ Head(queue).type = type
    /\ queue' = Tail(queue)
    /\ pc' = "poll"

OnQuit ==
    /\ Polled("SDL_QUIT")
    /\ running' = FALSE
    /\ UNCHANGED <<process, endian, window, gl_context, width, height,
                   locations, glstate, animation, button_down>>

(* data1 and data2 taken the wrong way round *)
OnWindowEventSwapped ==
    /\ Polled("SDL_WINDOWEVENT")
    /\ \/ /\ Head(queue).event = "SDL_WINDOWEVENT_RESIZED"
          /\ width' = Head(queue).data2
          /\ height' = Head(queue).data1
          /\ viewport' = <<width', height'>>
       \/ /\ Head(queue).event # "SDL_WINDOWEVENT_RESIZED"
          /\ UNCHANGED <<width, height, viewport>>
    /\ UNCHANGED <<process, endian, window, gl_context, locations, uniform,
                   active_texture, bound_texture, textures, upload,
                   animation, button_down, running>>

OnWindowEvent ==
    /\ Polled("SDL_WINDOWEVENT")
    /\ \/ /\ Head(queue).event = "SDL_WINDOWEVENT_RESIZED"
          /\ width' = Head(queue).data1
          /\ height' = Head(queue).data2
          /\ viewport' = <<width', height'>>
       \/ /\ Head(queue).event # "SDL_WINDOWEVENT_RESIZED"
          /\ UNCHANGED <<width, height, viewport>>
    /\ UNCHANGED <<process, endian, window, gl_context, locations, uniform,
                   active_texture, bound_texture, textures, upload,
                   animation, button_down, running>>

SetButton(sym, down) ==
    [k \in (DOMAIN button_down) \cup {sym} |->
        IF k = sym THEN down ELSE button_down[k]]

OnKeyDown ==
    /\ Polled("SDL_KEYDOWN")
    /\ button_down' = SetButton(Head(queue).sym, TRUE)
    /\ UNCHANGED <<process, endian, window, gl_context, width, height,
                   locations, glstate, animation, running>>

OnKeyUp ==
    /\ Polled("SDL_KEYUP")
    /\ button_down' = SetButton(Head(queue).sym, FALSE)
    /\ UNCHANGED <<process, endian, window, gl_context, width, height,
                   locations, glstate, animation, running>>

(* `if (!running) break;` left out: the loop's condition is only tested
   after the frame *)
DrainEndNoBreak ==
    /\ pc = "poll"
    /\ queue = <<>>
    /\ pc' = "clock"
    /\ UNCHANGED <<process, endian, window, gl_context, width, height,
                   locations, glstate, animation, button_down, running,
                   queue>>

(* SDL_PollEvent returns 0: the for loop ends, then `if (!running) break;` *)
DrainEnd ==
    /\ pc = "poll"
    /\ queue = <<>>
    /\ pc' = IF ~running THEN "delete_context" ELSE "clock"
    /\ UNCHANGED <<process, endian, window, gl_context, width, height,
                   locations, glstate, animation, button_down, running,
                   queue>>

----------------------------------------------------------------------------
(* The frame loop: the animation clock *)

(* Variants of the clock step with a plausible slip, used to show that the
   properties below depend on the step as it is written *)
ClockStepUpdate(t2, p2, f2, c2) ==
    /\ pc = "clock"
    /\ time' = t2
    /\ prev_time' = p2
    /\ curr_frame' = f2
    /\ curr_frame_changed' = c2
    /\ pc' = "render"
    /\ UNCHANGED <<process, endian, window, gl_context, width, height,
                   locations, glstate, button_down, running, queue>>

(* the boundary is never moved: `prev_time = time` left out *)
ClockStepNoBoundary(dt) ==
    LET t2 == time + dt IN
    IF t2 - prev_time >= Tick
    THEN ClockStepUpdate(t2, prev_time, (curr_frame + 1) % FrameCount, TRUE)
    ELSE ClockStepUpdate(t2, prev_time, curr_frame, FALSE)

(* one advance per elapsed tick period: a catch-up loop *)
ClockStepCatchUp(dt) ==
    LET t2 == time + dt
        n == (t2 - prev_time) \div Tick IN
    IF n >= 1
    THEN ClockStepUpdate(t2, t2, (curr_frame + n) % FrameCount, TRUE)
    ELSE ClockStepUpdate(t2, prev_time, curr_frame, FALSE)

(* the flag is never cleared: the else branch left out *)
ClockStepStickyFlag(dt) ==
    LET t2 == time + dt IN
    IF t2 - prev_time >= Tick
    THEN ClockStepUpdate(t2, t2, (curr_frame + 1) % FrameCount, TRUE)
    ELSE ClockStepUpdate(t2, prev_time, curr_frame, curr_frame_changed)

(* the boundary moves by one period: `prev_time += 0.05f` *)
ClockStepFixedPeriod(dt) ==
    LET t2 == time + dt IN
    IF t2 - prev_time >= Tick
    THEN ClockStepUpdate(t2, prev_time + Tick, (curr_frame + 1) % FrameCount, TRUE)
    ELSE ClockStepUpdate(t2, prev_time, curr_frame, FALSE)

ClockStep(dt) ==
    /\ pc = "clock"
    /\ time' = time + dt
    /\ IF time' - prev_time >= Tick
       THEN /\ prev_time' = time'
            /\ curr_frame' = IF curr_frame + 1 >= FrameCount THEN 0
                             ELSE curr_frame + 1
            /\ curr_frame_changed' = TRUE
       ELSE /\ curr_frame_changed' = FALSE
            /\ UNCHANGED <<prev_time, curr_frame>>
    /\ pc' = "render"
    /\ UNCHANGED <<process, endian, window, gl_context, width, height,
                   locations, glstate, button_down, running, queue>>

----------------------------------------------------------------------------
(* The frame loop: matrices, uniforms, texture binding and update *)

ViewMatrix == [angle |-> "pi/6", dz |-> -15]

SetUniforms ==
    LET u1 == SetUniform(uniform, GetUniformLocation("view"), ViewMatrix)
        u2 == SetUniform(u1, GetUniformLocation("projection"),
                         Projection(width, height))
        u3 == SetUniform(u2, tex_location, 0)
    IN  SetUniform(u3, tex_img_location, 1)

(* the frame is uploaded in every iteration *)
RenderAlwaysUploads ==
    /\ pc = "render"
    /\ uniform' = SetUniforms
    /\ active_texture' = 1
    /\ bound_texture' =
          BindTexture(BindTexture(bound_texture, 0, TextureId), 1, TexImgId)
    /\ textures' = GenerateMipmapBound(
            TexSubImage2D(textures, bound_texture', active_texture', 0,
                          FrameImage(curr_frame)),
            bound_texture', active_texture')
    /\ upload' = [done |-> TRUE, unit |-> active_texture',
                  texture |-> bound_texture'[active_texture'],
                  index |-> curr_frame]
    /\ pc' = "draw"
    /\ UNCHANGED <<process, endian, window, gl_context, width, height,
                   locations, viewport, animation, button_down, running,
                   queue>>

Render ==
    /\ pc = "render"
    /\ uniform' = SetUniforms
    /\ active_texture' = 1
    /\ bound_texture' =
          BindTexture(BindTexture(bound_texture, 0, TextureId), 1, TexImgId)
    /\ IF curr_frame_changed
       THEN /\ textures' = GenerateMipmapBound(
                    TexSubImage2D(textures, bound_texture', active_texture', 0,
                                  FrameImage(curr_frame)),
                    bound_texture', active_texture')
            /\ upload' = [done |-> TRUE, unit |-> active_texture',
                          texture |-> bound_texture'[active_texture'],
                          index |-> curr_frame]
       ELSE /\ upload' = NoUpload
            /\ UNCHANGED textures
    /\ pc' = "draw"
    /\ UNCHANGED <<process, endian, window, gl_context, width, height,
                   locations, viewport, animation, button_down, running,
                   queue>>

(* glBindVertexArray, glDrawElements *)
Draw ==
    /\ pc = "draw"
    /\ pc' = "swap"
    /\ UNCHANGED <<process, endian, window, gl_context, width, height,
                   locations, glstate, animation, button_down, running,
                   queue>>

(* SDL_GL_SwapWindow, then the loop's next iteration *)
Swap ==
    /\ pc = "swap"
    /\ pc' = "poll"
    /\ UNCHANGED <<process, endian, window, gl_context, width, height,
                   locations, glstate, animation, button_down, running,
                   queue>>

----------------------------------------------------------------------------
(* Shutdown *)

DeleteContext ==
    /\ pc = "delete_context"
    /\ gl_context' = "deleted"
    /\ pc' = "destroy_window"
    /\ UNCHANGED <<process, endian, window, width, height, locations,
                   glstate, animation, button_down, running, queue>>

(* SDL_DestroyWindow, then main returns 0 by falling off its end *)
DestroyWindow ==
    /\ pc = "destroy_window"
    /\ window' = "destroyed"
    /\ exit_code' = EXIT_SUCCESS
    /\ pc' = "done"
    /\ UNCHANGED <<exception, stderr, endian, gl_context, width, height,
                   locations, glstate, animation, button_down, running,
                   queue>>

----------------------------------------------------------------------------
(* Specifications *)

Setup ==
    \/ SdlInit
    \/ CreateWindow
    \/ CreateContext
    \/ GlewInit
    \/ CheckVersion
    \/ CompileVertexShader
    \/ CompileFragmentShader
    \/ LinkProgram
    \/ QueryLocations
    \/ BuildCheckerboard
    \/ BuildAnimated
    \/ Catch

Frame ==
    \/ DrainEnd
    \/ Render
    \/ Draw
    \/ Swap

Input ==
    \/ Post
    \/ OnQuit
    \/ OnWindowEvent
    \/ OnKeyDown
    \/ OnKeyUp

Shutdown ==
    \/ DeleteContext
    \/ DestroyWindow

Tick_(dts, horizon) ==
    \E dt \in dts : time + dt <= horizon /\ ClockStep(dt)

(* The whole program, with input *)
Next ==
    \/ Setup
    \/ Input
    \/ Frame
    \/ Tick_(InputDts, MaxTime)
    \/ Shutdown

Spec == Init /\ [][Next]_vars

(* The program left alone: no event arrives, the animation runs long
   enough to wrap *)
NextAnim ==
    \/ Setup
    \/ Frame
    \/ Tick_(Dts, AnimMaxTime)

SpecAnim == Init /\ [][NextAnim]_vars

(* The same, polled at least once per tick period *)
NextPolled ==
    \/ Setup
    \/ Frame
    \/ Tick_(PolledDts, AnimMaxTime)

SpecPolled == Init /\ [][NextPolled]_vars

(* The same, at a steady 16 ms per iteration *)
NextSteady ==
    \/ Setup
    \/ Frame
    \/ Tick_(SteadyDts, SteadyMaxTime)

SpecSteady == Init /\ [][NextSteady]_vars

----------------------------------------------------------------------------
(* Properties of the animation clock *)

InLoop == pc \in {"poll", "clock", "render", "draw", "swap"}

(* C1 as stated: the frame index after the iteration at elapsed time t is
   floor(t / 0.05) mod 15, when every time step is at most the tick period.
   Violated: the boundary is reset to the time of the advance, not to the
   multiple of the period, so the index falls behind (steps of 16 ms give
   index 1 at t = 112 ms). *)
C1_IndexIsFloor ==
    InLoop => curr_frame = (time \div Tick) % FrameCount

(* C1 as amended: with every time step at most the tick period, the frame
   index is n mod 15 for a number of advances n that is at most
   floor(t / 0.05) and at least half of it (rounded up), the advances lying
   at least one period apart. *)
C1_IndexLagsFloor ==
    InLoop =>
        \E n \in (((time \div Tick) + 1) \div 2)..(time \div Tick) :
            /\ curr_frame = n % FrameCount
            /\ n * Tick <= prev_time
            /\ prev_time <= time
            /\ time - prev_time < Tick

C1_Witness ==
    /\ pc = "render"
    /\ time = 112
    /\ curr_frame = 1
    /\ ~curr_frame_changed

(* C2: a loop iteration advances the clock at most once.  If the elapsed
   time is at least a tick period past the boundary, the boundary becomes
   the elapsed time and the index becomes (index + 1) mod 15; otherwise
   both stay.  No other step touches them, and the index stays in 0..14. *)
C2_ZeroOrOneAdvance ==
    /\ [](curr_frame \in 0..(FrameCount - 1))
    /\ [][IF pc = "clock" /\ pc' = "render"
          THEN IF time' - prev_time >= Tick
               THEN /\ prev_time' = time'
                    /\ curr_frame' = (curr_frame + 1) % FrameCount
               ELSE UNCHANGED <<prev_time, curr_frame>>
          ELSE UNCHANGED <<time, prev_time, curr_frame>>]_vars

(* a first step of 120 ms, more than two periods, moved the index by one *)
C2_Witness ==
    /\ pc = "render"
    /\ time = 120
    /\ prev_time = 120
    /\ curr_frame = 1

(* C3: after the clock step, frame_changed tells whether the index differs
   from its value after the previous clock step; between clock steps the
   index and the flag stay. *)
C3_ChangedIffIndexMoved ==
    [][IF pc = "clock" /\ pc' = "render"
       THEN curr_frame_changed' <=> (curr_frame' # curr_frame)
       ELSE UNCHANGED <<curr_frame, curr_frame_changed>>]_vars

(* the wrap from 14 to 0 is a change too *)
C3_Witness ==
    /\ pc = "render"
    /\ time > 0
    /\ curr_frame = 0
    /\ curr_frame_changed

(* C4 as stated: 50 iterations of 16 ms, up to t = 0.8 s, leave index 1.
   Violated: an advance needs four iterations (64 ms), so 12 happen. *)
C4_IndexOneAt800 ==
    (InLoop /\ time = 800) => curr_frame = 1

(* C4 as amended: they leave index 12, the last advance being the 48th
   iteration's, at 768 ms. *)
C4_IndexTwelveAt800 ==
    (InLoop /\ time = 800) =>
        /\ curr_frame = 12
        /\ prev_time = 768
        /\ ~curr_frame_changed

C4_Witness ==
    /\ pc = "render"
    /\ time = 800

----------------------------------------------------------------------------
(* Properties of the textures and the samplers *)

Built == pc \in {"build_animated", "poll", "clock", "render", "draw", "swap",
                 "delete_context", "destroy_window", "done"}
         /\ exception = "none"

Solid(img, colour) ==
    /\ img.kind = "texels"
    /\ \A i \in DOMAIN img.px : img.px[i] = colour

(* C5: once the checkerboard is built, level 1 is solid red, level 2 solid
   green and level 3 solid blue, the fill words read as R, G, B, A bytes.
   Violated: the word 0xffff0000 of green_mipmap is the bytes 00 00 ff ff on
   a little-endian host, which is blue (and ff ff 00 00 on a big-endian
   one, a transparent yellow). *)
C5_LevelsRedGreenBlue ==
    Built =>
        /\ Solid(textures[TextureId][1], Red)
        /\ Solid(textures[TextureId][2], Green)
        /\ Solid(textures[TextureId][3], Blue)

(* C6 as stated: after the uniforms are set, both samplers refer to unit 0,
   which holds the checkerboard.  Violated: both locations are the one of
   `tex`, so the second glUniform1i sets `tex` to 1. *)
C6_BothSamplersUnit0 ==
    pc = "draw" =>
        /\ uniform["tex"] = uniform["img"]
        /\ uniform["tex"] = 0
        /\ bound_texture[0] = TextureId

(* C6 as amended: both location variables name `tex`; `img` is never
   written and keeps unit 0, its default; after the uniforms are set `tex`
   refers to unit 1, the animated texture, and `img` to unit 0, the
   checkerboard: the two samplers refer to different units. *)
C6_TexUnit1ImgUnit0 ==
    /\ uniform["img"] = 0
    /\ tex_location \in {"none", "tex"}
    /\ tex_img_location = tex_location
    /\ pc = "draw" =>
          /\ uniform["tex"] = 1
          /\ bound_texture[uniform["tex"]] = TexImgId
          /\ bound_texture[uniform["img"]] = TextureId

C6_Witness ==
    /\ pc = "draw"
    /\ uniform["tex"] = 1
    /\ tex_img_location = "tex"

(* C10: at a draw call, level 0 of the animated texture is frame curr_frame
   and its mipmaps are those of that frame; an upload happened in the
   iteration exactly if frame_changed is set; an upload goes to the
   animated texture, bound to unit 1, and reads an index in 0..14; the
   checkerboard is never written by the loop. *)
C10_AnimatedTextureFollowsIndex ==
    /\ pc = "draw" =>
          /\ textures[TexImgId][0].kind = "asset"
          /\ textures[TexImgId][0].px = [frame |-> curr_frame, level |-> 0]
          /\ textures[TexImgId][1].px = [frame |-> curr_frame, level |-> 1]
          /\ upload.done <=> curr_frame_changed
          /\ upload.done => upload.index = curr_frame
    /\ upload.done =>
          /\ upload.unit = 1
          /\ upload.texture = TexImgId
          /\ upload.index \in 0..(FrameCount - 1)
    /\ InLoop =>
          /\ textures[TextureId][0].kind = "texels"
          /\ \A i \in 1..(ImgDim * ImgDim) :
                textures[TextureId][0].px[i] \in
                    {<<0, 0, 0, 255>>, <<255, 255, 255, 255>>}

(* the upload of frame 0 after the wrap *)
C10_Witness ==
    /\ pc = "draw"
    /\ time > 0
    /\ upload.done
    /\ upload.index = 0

----------------------------------------------------------------------------
(* Properties of the event drain, the shutdown and the failures *)

ResizePolled ==
    /\ pc = "poll"
    /\ queue # <<>>
    /\ queue' = Tail(queue)
    /\ Head(queue).type = "SDL_WINDOWEVENT"
    /\ Head(queue).event = "SDL_WINDOWEVENT_RESIZED"

(* C7: a resize event sets width to data1 and height to data2 and leaves
   the animation alone; nothing else changes them once the window exists;
   the projection of a frame is computed with right = 0.1 * width / height
   from the stored values. *)
C7_ResizeSetsSize ==
    /\ [](pc = "draw" =>
            uniform["projection"].right.num * (NearDen * height)
                = uniform["projection"].right.den * (NearNum * width))
    /\ [][ResizePolled =>
            /\ width' = Head(queue).data1
            /\ height' = Head(queue).data2
            /\ UNCHANGED animation]_vars
    /\ [][(InLoop /\ ~ResizePolled) => UNCHANGED <<width, height>>]_vars

(* the frame drawn after a (1024, 768) resize: right = 0.1 * 1024 / 768 *)
C7_Witness ==
    /\ pc = "draw"
    /\ width = 1024
    /\ height = 768
    /\ uniform["projection"].right.num * 7680
          = uniform["projection"].right.den * 1024

Closed == InLoop /\ ~running

(* C8: once SDL_QUIT is handled the drain goes on while events are pending
   and then leaves the loop: no clock step, texture update, draw or swap
   follows; the context is deleted before the window is destroyed and main
   returns 0. *)
C8_CloseEndsLoop ==
    /\ [](Closed => pc = "poll")
    /\ [](window = "destroyed" => gl_context = "deleted")
    /\ []((pc = "done" /\ exception = "none") =>
            /\ exit_code = 0
            /\ window = "destroyed"
            /\ ~running
            /\ stderr = <<>>)
    /\ [][Closed =>
            /\ UNCHANGED <<animation, textures, uniform, upload, running>>
            /\ queue # <<>> => pc' = "poll"
            /\ queue = <<>> => pc' \in {"poll", "delete_context"}]_vars

(* closed after at least one frame *)
C8_Witness ==
    /\ pc = "done"
    /\ exit_code = 0
    /\ window = "destroyed"
    /\ time > 0

Failed == exception # "none"

(* C9: a failed setup step is raised once with its message; no later setup
   step runs and the loop is never entered; the handler writes the message
   to standard error and the exit code is nonzero. *)
C9_SetupFailureAborts ==
    /\ [](Failed => pc \in {"catch", "done"})
    /\ []((Failed /\ pc = "catch") => (stderr = <<>> /\ exit_code = -1))
    /\ []((Failed /\ pc = "done") =>
            (stderr = <<exception>> /\ exit_code # 0 /\ exit_code # -1))
    /\ [](Failed =>
            /\ ~running
            /\ time = 0
            /\ tex_location = "none"
            /\ textures[TextureId] = NoTexture
            /\ textures[TexImgId] = NoTexture
            /\ exception \in {"SDL_Init: ", "SDL_CreateWindow: "}
                  => window = "none"
            /\ exception \in {"SDL_Init: ", "SDL_CreateWindow: ",
                              "SDL_GL_CreateContext: "}
                  => gl_context = "none")
    /\ [][Failed => UNCHANGED <<exception, window, gl_context, locations,
                                glstate, animation, running>>]_vars
    /\ [][(pc \notin {"build_checkerboard", "build_animated", "locations"}
            /\ ~InLoop /\ pc' # pc /\ ~Failed)
          => \/ Failed' /\ pc' = "catch"
             \/ ~Failed' /\ pc' # "catch"]_vars

(* the last step that can fail did *)
C9_Witness ==
    /\ pc = "done"
    /\ exception = "Program linkage failed: "
    /\ stderr = <<"Program linkage failed: ">>
    /\ exit_code = EXIT_FAILURE

====
